---------------------------- MODULE Spec2Model ----------------------------
(***************************************************************************)
(* QQAvatar (src/main.py): building the avatar URL, probing it with HEAD,  *)
(* downloading it with GET into a file, and downloading a list of them.    *)
(*                                                                         *)
(* Text is a sequence of tokens.  A token is a one-character string (the   *)
(* characters of an identifier, the digits of a formatted number) or one   *)
(* literal piece of a template or of a file name.  A path is a sequence of *)
(* components, each component a text.  A file's content is a sequence of   *)
(* chunks of bytes.                                                        *)
(***************************************************************************)
EXTENDS Integers, Sequences, FiniteSets, TLC

VARIABLES files, dirs, call, calls, batch

vars == <<files, dirs, call, calls, batch>>

---------------------------------------------------------------------------
(* Bounds of the model and constants of the program *)

\* longest identifier given as a string
MaxIdLen == 3
\* identifiers given as int range over -MaxIntId .. MaxIntId
MaxIntId == 12
\* number of download_avatar calls made in a row on one filesystem
MaxCalls == 2
\* longest qq_list given to batch_download
MaxBatch == 2

\* src/main.py:30-31
HdMaxSize == 640
\* src/main.py:35-36
NormalMaxSize == 140
\* src/main.py:64
GetTimeout == 10
\* src/main.py:98
HeadTimeout == 5
\* src/main.py:14, 41-42, 104 (default of the parameter size)
DefaultSize == 640

---------------------------------------------------------------------------
(* str(int) and int(str), as Python computes them *)

Digits == <<"0", "1", "2", "3", "4", "5", "6", "7", "8", "9">>

DigitSet == {Digits[i] : i \in 1..10}

DigitVal(c) == (CHOOSE i \in 1..10 : Digits[i] = c) - 1

RECURSIVE NatToStr(_)
NatToStr(n) == IF n < 10 THEN <<Digits[n + 1]>>
               ELSE NatToStr(n \div 10) \o <<Digits[(n % 10) + 1]>>

\* str(n) of an int n: a minus sign for a negative number, then the decimal digits
IntToStr(n) == IF n < 0 THEN <<"-">> \o NatToStr(0 - n) ELSE NatToStr(n)

\* An identifier is an int or a str (Union[str, int]).
IntId(n) == [kind |-> "int", n |-> n, s |-> <<>>]

StrId(s) == [kind |-> "str", n |-> 0, s |-> s]

\* str(qq): line 26, and the f-strings of lines 60 and 125
str(qq) == IF qq.kind = "int" THEN IntToStr(qq.n) ELSE qq.s

RECURSIVE LStrip(_)
LStrip(s) == IF s # <<>> /\ s[1] = " " THEN LStrip(Tail(s)) ELSE s

RECURSIVE RStrip(_)
RStrip(s) == IF s # <<>> /\ s[Len(s)] = " " THEN RStrip(SubSeq(s, 1, Len(s) - 1)) ELSE s

RECURSIVE DigitsValue(_, _)
DigitsValue(s, acc) == IF s = <<>> THEN acc
                       ELSE IF s[1] = "_" THEN DigitsValue(Tail(s), acc)
                       ELSE DigitsValue(Tail(s), 10 * acc + DigitVal(s[1]))

\* int(s) of a str s, base 10: surrounding whitespace is dropped, one sign is
\* allowed, then digits, with single underscores allowed between digits.
\* ok = FALSE stands for ValueError.
int(s) ==
    LET t == RStrip(LStrip(s))
        signed == t # <<>> /\ t[1] \in {"+", "-"}
        body == IF signed THEN Tail(t) ELSE t
        wellFormed == /\ body # <<>>
                      /\ body[1] \in DigitSet
                      /\ body[Len(body)] \in DigitSet
                      /\ \A i \in 1..Len(body) : body[i] \in DigitSet \cup {"_"}
                      /\ \A i \in 1..(Len(body) - 1) : ~(body[i] = "_" /\ body[i + 1] = "_")
        mag == DigitsValue(body, 0)
    IN  IF wellFormed
        THEN [ok |-> TRUE, val |-> IF signed /\ t[1] = "-" THEN 0 - mag ELSE mag]
        ELSE [ok |-> FALSE, val |-> 0]

---------------------------------------------------------------------------
(* get_avatar_url *)

\* A template is a sequence of literal pieces and replacement fields.
Fields == {"{qq}", "{size}", "{server}"}

\* line 11
normal_url_template == <<"http://q", "{server}", ".qlogo.cn/g?b=qq&nk=", "{qq}", "&s=", "{size}">>

\* line 12
hd_url_template == <<"http://q.qlogo.cn/headimg_dl?dst_uin=", "{qq}", "&spec=", "{size}", "&img_type=jpg">>

\* template.format(**binding): every field is replaced by the text bound to it
RECURSIVE format(_, _)
format(template, binding) ==
    IF template = <<>> THEN <<>>
    ELSE (IF template[1] \in Fields THEN binding[template[1]] ELSE <<template[1]>>)
         \o format(Tail(template), binding)

\* lines 30-31
hd_size_noclamp(size) == size

hd_size(size) == IF size > HdMaxSize THEN HdMaxSize ELSE size

\* lines 35-36
normal_size(size) == IF size > NormalMaxSize THEN NormalMaxSize ELSE size

\* line 38: the parity of int(qq_str); ValueError when qq_str is no integer
server_swapped(qq_str) ==
    LET p == int(qq_str)
    IN  IF ~p.ok THEN [raised |-> "ValueError", server |-> ""]
        ELSE [raised |-> "none", server |-> IF p.val % 2 = 0 THEN "2" ELSE "1"]

server(qq_str) ==
    LET p == int(qq_str)
    IN  IF ~p.ok THEN [raised |-> "ValueError", server |-> ""]
        ELSE [raised |-> "none", server |-> IF p.val % 2 = 0 THEN "1" ELSE "2"]

\* A plausible slip: the server is chosen before the branch on hd.
get_avatar_url_parse_first(qq, hd, size) ==
    LET qq_str == str(qq)
        sv == server(qq_str)
    IN  IF sv.raised # "none" THEN [raised |-> sv.raised, url |-> <<>>]
        ELSE IF hd
        THEN [raised |-> "none",
              url |-> format(hd_url_template,
                             [f \in Fields |-> IF f = "{qq}" THEN qq_str
                                               ELSE IntToStr(hd_size(size))])]
        ELSE [raised |-> "none",
              url |-> format(normal_url_template,
                             [f \in Fields |-> IF f = "{qq}" THEN qq_str
                                               ELSE IF f = "{server}" THEN <<sv.server>>
                                               ELSE IntToStr(normal_size(size))])]

\* lines 14-39
get_avatar_url(qq, hd, size) ==
    LET qq_str == str(qq)
    IN  IF hd
        THEN [raised |-> "none",
              url |-> format(hd_url_template,
                             [f \in Fields |-> IF f = "{qq}" THEN qq_str
                                               ELSE IntToStr(hd_size(size))])]
        ELSE LET sv == server(qq_str)
             IN  IF sv.raised # "none" THEN [raised |-> sv.raised, url |-> <<>>]
                 ELSE [raised |-> "none",
                       url |-> format(normal_url_template,
                                      [f \in Fields |-> IF f = "{qq}" THEN qq_str
                                                        ELSE IF f = "{server}" THEN <<sv.server>>
                                                        ELSE IntToStr(normal_size(size))])]

---------------------------------------------------------------------------
(* The network: what the service, or the failure to reach it, answers *)

Response(status, content) == [kind |-> "response", status_code |-> status, content |-> content]

\* requests.exceptions.ConnectionError, requests.exceptions.Timeout
NetError(k) == [kind |-> k, status_code |-> 0, content |-> <<>>]

NetErrors == {NetError("ConnectionError"), NetError("Timeout")}

Request(method, url, timeout) == [method |-> method, url |-> url, timeout |-> timeout]

\* line 65: response.raise_for_status() raises HTTPError for a 4xx or 5xx status
\* and for no other; TRUE stands for the raise.
raise_for_status_5xx_only(response) == response.status_code >= 500 /\ response.status_code < 600

raise_for_status(response) == response.status_code >= 400 /\ response.status_code < 600

---------------------------------------------------------------------------
(* check_avatar_exists *)

\* A plausible slip: any status that is not an error counts as existing.
check_avatar_exists_ok(qq, hd, net) ==
    LET u == get_avatar_url(qq, hd, DefaultSize)
    IN  IF u.raised # "none"
        THEN [raised |-> u.raised, ret |-> FALSE, url |-> <<>>, requests |-> <<>>]
        ELSE [raised |-> "none",
              ret |-> net.kind = "response" /\ net.status_code < 400,
              url |-> u.url,
              requests |-> <<Request("HEAD", u.url, HeadTimeout)>>]

\* lines 84-101.  The URL is built before the try (line 95); the bare except
\* of line 100 covers the HEAD request only.
check_avatar_exists(qq, hd, net) ==
    LET u == get_avatar_url(qq, hd, DefaultSize)
    IN  IF u.raised # "none"
        THEN [raised |-> u.raised, ret |-> FALSE, url |-> <<>>, requests |-> <<>>]
        ELSE [raised |-> "none",
              ret |-> IF net.kind = "response" THEN net.status_code = 200 ELSE FALSE,
              url |-> u.url,
              requests |-> <<Request("HEAD", u.url, HeadTimeout)>>]

---------------------------------------------------------------------------
(* The filesystem *)

Root == <<"/">>

\* the current working directory
Cwd == <<Root, <<"home">>>>

\* save_path = None
None == <<>>

\* os.path.abspath
abspath(p) == IF p # <<>> /\ p[1] = Root THEN p ELSE Cwd \o p

\* os.path.dirname
dirname(p) == SubSeq(p, 1, Len(p) - 1)

\* os.path.join(d, name), name a relative file name
join(d, name) == d \o <<name>>

Ancestors(d) == {SubSeq(d, 1, k) : k \in 1..Len(d)}

\* os.path.exists
exists(fs_files, fs_dirs, p) == abspath(p) \in fs_dirs \/ abspath(p) \in DOMAIN fs_files

\* os.makedirs(d, exist_ok): the directory and its missing ancestors are created.
\* OSError when the directory exists and exist_ok is false, when a file is in
\* the way, or when the system refuses (io = "makedirs").
makedirs(fs_files, fs_dirs, d, exist_ok, io) ==
    IF d \in fs_dirs
    THEN [raised |-> IF exist_ok THEN "none" ELSE "OSError", dirs |-> fs_dirs]
    ELSE IF (Ancestors(d) \cap DOMAIN fs_files) # {} \/ io = "makedirs"
    THEN [raised |-> "OSError", dirs |-> fs_dirs]
    ELSE [raised |-> "none", dirs |-> fs_dirs \cup Ancestors(d)]

\* f.write(content) on a file opened with mode 'wb' (lines 71-72)
write_append(old, content) == old \o content

write(old, content) == content

\* lines 71-72: open(save_path, 'wb') truncates the file, f.write stores the
\* content.  OSError when the parent directory is missing, when the path is a
\* directory, or when the system refuses to open (io = "open") or to write
\* (io = "write": the file is left truncated).
open_and_write(fs_files, fs_dirs, path, content, io) ==
    LET p == abspath(path)
        old == IF p \in DOMAIN fs_files THEN fs_files[p] ELSE <<>>
        put(c) == [q \in DOMAIN fs_files \cup {p} |-> IF q = p THEN c ELSE fs_files[q]]
    IN  IF dirname(p) \notin fs_dirs \/ p \in fs_dirs \/ io = "open"
        THEN [raised |-> "OSError", files |-> fs_files]
        ELSE IF io = "write"
        THEN [raised |-> "OSError", files |-> put(<<>>)]
        ELSE [raised |-> "none", files |-> put(write(old, content))]

---------------------------------------------------------------------------
(* download_avatar *)

\* lines 59, 124
suffix(hd) == IF hd THEN "_hd.jpg" ELSE ".png"

\* lines 59-60: f"qq_{qq}{suffix}"
default_save_path_png(qq, hd) == <<(<<"qq_">> \o str(qq)) \o <<".png">>>>

default_save_path(qq, hd) == <<(<<"qq_">> \o str(qq)) \o <<suffix(hd)>>>>

\* lines 41-82.  raised # "none": the exception leaves download_avatar (the URL
\* is built at line 55, before the try); otherwise ret is the returned bool.
download_avatar(fs_files, fs_dirs, qq, save_path0, hd, size, net, io) ==
    LET u == get_avatar_url(qq, hd, size)
        save_path == IF save_path0 = None THEN default_save_path(qq, hd) ELSE save_path0
        unchanged(req) == [raised |-> "none", ret |-> FALSE, files |-> fs_files,
                           dirs |-> fs_dirs, url |-> u.url, requests |-> req,
                           saved |-> None]
        get == <<Request("GET", u.url, GetTimeout)>>
        mk == makedirs(fs_files, fs_dirs, dirname(abspath(save_path)), TRUE, io)
        wr == open_and_write(fs_files, mk.dirs, save_path, net.content, io)
    IN  IF u.raised # "none"
        THEN [raised |-> u.raised, ret |-> FALSE, files |-> fs_files, dirs |-> fs_dirs,
              url |-> <<>>, requests |-> <<>>, saved |-> None]
        ELSE IF net.kind # "response" THEN unchanged(get)
        ELSE IF raise_for_status(net) THEN unchanged(get)
        ELSE IF mk.raised # "none" THEN unchanged(get)
        ELSE IF wr.raised # "none"
        THEN [raised |-> "none", ret |-> FALSE, files |-> wr.files, dirs |-> mk.dirs,
              url |-> u.url, requests |-> get, saved |-> None]
        ELSE [raised |-> "none", ret |-> TRUE, files |-> wr.files, dirs |-> mk.dirs,
              url |-> u.url, requests |-> get, saved |-> save_path]

---------------------------------------------------------------------------
(* Inputs *)

IdChars == {"0", "1", "2", "7", "-", "+", " ", "_", "a"}

StrIds == UNION {[1..n -> IdChars] : n \in 0..MaxIdLen}

Ids == {IntId(n) : n \in (0 - MaxIntId)..MaxIntId} \cup {StrId(s) : s \in StrIds}

Sizes == {-1, 0, 1, 100, 139, 140, 141, 200, 639, 640, 641, 1000}

HeadStatuses == {200, 201, 204, 206, 301, 304, 404, 500}

HeadNet == NetErrors \cup {Response(s, <<>>) : s \in HeadStatuses}

Bodies == {<<"img1">>, <<"img2">>}

GetNet == NetErrors \cup {Response(200, b) : b \in Bodies}
          \cup {Response(304, <<>>), Response(404, <<"notfound">>), Response(503, <<"busy">>)}

IoOutcomes == {"ok", "makedirs", "open", "write"}

\* The filesystem answers only when it is asked: after a GET that passed line 65.
IoAfter(net) == IF net.kind = "response" /\ ~raise_for_status(net) THEN IoOutcomes ELSE {"ok"}

\* identifiers of the download runs: an int, a numeric str, a non-numeric str
DlIds == {IntId(8), StrId(<<"7">>), StrId(<<"a">>)}

DlSizes == {DefaultSize}

SavePaths == {None, <<<<"out">>, <<"a.jpg">>>>}

OutputDir == <<<<"avatars">>>>

BatchLists == UNION {[1..n -> DlIds] : n \in 0..MaxBatch}

---------------------------------------------------------------------------
(* State *)

NoCall == [op |-> "none", qq |-> IntId(0), hd |-> TRUE, size |-> 0, save_path |-> None,
           net |-> NetError("none"), io |-> "ok", raised |-> "none", ret |-> FALSE,
           url |-> <<>>, requests |-> <<>>, saved |-> None, prior |-> <<>>, existed |-> FALSE]

NoExc == [type |-> "none", at |-> "none"]

\* pc: idle, loop (the for of line 120), done (line 130 has printed the summary),
\* raised (an exception has left batch_download)
NoBatch == [pc |-> "idle", qq_list |-> <<>>, hd |-> TRUE, size |-> 0, i |-> 0,
            success_count |-> 0, attempts |-> <<>>, exc |-> NoExc,
            summary |-> [succeeded |-> 0, total |-> 0]]

BaseDirs == Ancestors(Cwd)

Init ==
    /\ files = <<>>
    /\ dirs = BaseDirs
    /\ call = NoCall
    /\ calls = 0
    /\ batch = NoBatch

\* qq_avatar.get_avatar_url(qq, hd, size)
GetAvatarUrl ==
    /\ calls = 0
    /\ \E qq \in Ids, hd \in BOOLEAN, size \in Sizes :
        \E r \in {get_avatar_url(qq, hd, size)} :
            /\ calls' = 1
            /\ call' = [NoCall EXCEPT !.op = "get_avatar_url", !.qq = qq, !.hd = hd,
                                      !.size = size, !.raised = r.raised, !.url = r.url]
            /\ UNCHANGED <<files, dirs, batch>>

\* qq_avatar.check_avatar_exists(qq, hd), the service answering net
CheckAvatarExists ==
    /\ calls = 0
    /\ \E qq \in Ids, hd \in BOOLEAN, net \in HeadNet :
        \E r \in {check_avatar_exists(qq, hd, net)} :
            /\ calls' = 1
            /\ call' = [NoCall EXCEPT !.op = "check_avatar_exists", !.qq = qq, !.hd = hd,
                                      !.size = DefaultSize, !.net = net,
                                      !.raised = r.raised, !.ret = r.ret, !.url = r.url,
                                      !.requests = r.requests]
            /\ UNCHANGED <<files, dirs, batch>>

Next == GetAvatarUrl \/ CheckAvatarExists

Spec == Init /\ [][Next]_vars

\* qq_avatar.download_avatar(qq, save_path, hd, size), the service answering
\* net and the filesystem io
DownloadAvatar ==
    /\ calls < MaxCalls
    /\ \E qq \in DlIds, save_path \in SavePaths, hd \in BOOLEAN, size \in DlSizes,
          net \in GetNet :
       \E io \in IoAfter(net) :
        \E r \in {download_avatar(files, dirs, qq, save_path, hd, size, net, io)},
           target \in {abspath(IF save_path = None THEN default_save_path(qq, hd) ELSE save_path)} :
            /\ calls' = calls + 1
            /\ files' = r.files
            /\ dirs' = r.dirs
            /\ call' = [NoCall EXCEPT !.op = "download_avatar", !.qq = qq, !.hd = hd,
                                      !.size = size, !.save_path = save_path, !.net = net,
                                      !.io = io, !.raised = r.raised, !.ret = r.ret,
                                      !.url = r.url, !.requests = r.requests,
                                      !.saved = r.saved,
                                      !.existed = target \in DOMAIN files,
                                      !.prior = IF target \in DOMAIN files
                                                THEN files[target] ELSE <<>>]
            /\ UNCHANGED batch

NextDownload == DownloadAvatar

SpecDownload == Init /\ [][NextDownload]_vars

---------------------------------------------------------------------------
(* batch_download *)

\* The output directory may be there already when batch_download is called.
InitBatch ==
    /\ files = <<>>
    /\ dirs \in {BaseDirs, BaseDirs \cup Ancestors(abspath(OutputDir))}
    /\ call = NoCall
    /\ calls = 0
    /\ batch = NoBatch

\* lines 114-118: the output directory is created when it does not exist
BatchStart ==
    /\ batch.pc = "idle"
    /\ \E qq_list \in BatchLists, hd \in BOOLEAN, size \in DlSizes :
       \E io \in (IF exists(files, dirs, OutputDir) THEN {"ok"} ELSE {"ok", "makedirs"}) :
       \E mk \in {IF exists(files, dirs, OutputDir)
                  THEN [raised |-> "none", dirs |-> dirs]
                  ELSE makedirs(files, dirs, abspath(OutputDir), FALSE, io)} :
            /\ dirs' = mk.dirs
            /\ batch' = [NoBatch EXCEPT !.pc = IF mk.raised = "none" THEN "loop" ELSE "raised",
                                        !.exc = IF mk.raised = "none" THEN NoExc
                                                ELSE [type |-> mk.raised, at |-> "setup"],
                                        !.qq_list = qq_list, !.hd = hd, !.size = size]
            /\ UNCHANGED <<files, call, calls>>

\* lines 120-128: one turn of the loop, the whole download_avatar call of
\* line 127 included; an exception leaving download_avatar leaves the loop
BatchIter ==
    /\ batch.pc = "loop"
    /\ batch.i < Len(batch.qq_list)
    /\ \E net \in GetNet :
       \E io \in IoAfter(net) :
       \E qq \in {batch.qq_list[batch.i + 1]} :
       \E save_path \in {join(OutputDir, str(qq) \o <<suffix(batch.hd)>>)} :
       \E r \in {download_avatar(files, dirs, qq, save_path, batch.hd, batch.size, net, io)} :
            /\ files' = r.files
            /\ dirs' = r.dirs
            /\ batch' = IF r.raised # "none"
                        THEN [batch EXCEPT !.pc = "raised",
                                           !.exc = [type |-> r.raised, at |-> "item"],
                                           !.attempts = Append(@, [qq |-> qq, save_path |-> save_path,
                                                                   outcome |-> "raised"])]
                        ELSE [batch EXCEPT !.i = @ + 1,
                                           !.success_count = IF r.ret THEN @ + 1 ELSE @,
                                           !.attempts = Append(@, [qq |-> qq, save_path |-> save_path,
                                                                   outcome |-> IF r.ret THEN "ok"
                                                                               ELSE "failed"])]
            /\ UNCHANGED <<call, calls>>

\* line 130: the summary
BatchEnd ==
    /\ batch.pc = "loop"
    /\ batch.i = Len(batch.qq_list)
    /\ batch' = [batch EXCEPT !.pc = "done",
                              !.summary = [succeeded |-> batch.success_count,
                                           total |-> Len(batch.qq_list)]]
    /\ UNCHANGED <<files, dirs, call, calls>>

NextBatch == BatchStart \/ BatchIter \/ BatchEnd

SpecBatch == InitBatch /\ [][NextBatch]_vars

---------------------------------------------------------------------------
(* Reading a URL back *)

Literals == {normal_url_template[i] : i \in 1..Len(normal_url_template)}
            \cup {hd_url_template[i] : i \in 1..Len(hd_url_template)}

RECURSIVE UpToLiteral(_)
UpToLiteral(s) == IF s = <<>> \/ s[1] \in (Literals \ Fields) THEN <<>>
                  ELSE <<s[1]>> \o UpToLiteral(Tail(s))

HasPiece(url, piece) == \E i \in 1..Len(url) : url[i] = piece

\* the text that follows the literal piece in the URL, up to the next literal piece
FieldAfter(url, piece) ==
    LET i == CHOOSE k \in 1..Len(url) : url[k] = piece
    IN  UpToLiteral(SubSeq(url, i + 1, Len(url)))

Min(a, b) == IF a < b THEN a ELSE b

IsEven(n) == LET a == IF n < 0 THEN 0 - n ELSE n
             IN  \E k \in 0..a : a = 2 * k

\* The integer literals int() accepts, as an automaton over the characters:
\* blanks, one optional sign, digits with single underscores between them, blanks.
LitStep(q, c) ==
    CASE q = "start" -> IF c = " " THEN "start"
                        ELSE IF c \in {"+", "-"} THEN "sign"
                        ELSE IF c \in DigitSet THEN "digit" ELSE "bad"
      [] q = "sign"  -> IF c \in DigitSet THEN "digit" ELSE "bad"
      [] q = "digit" -> IF c \in DigitSet THEN "digit"
                        ELSE IF c = "_" THEN "under"
                        ELSE IF c = " " THEN "trail" ELSE "bad"
      [] q = "under" -> IF c \in DigitSet THEN "digit" ELSE "bad"
      [] q = "trail" -> IF c = " " THEN "trail" ELSE "bad"
      [] OTHER       -> "bad"

RECURSIVE LitRun(_, _)
LitRun(q, s) == IF s = <<>> THEN q ELSE LitRun(LitStep(q, s[1]), Tail(s))

IsIntegerText(s) == LitRun("start", s) \in {"digit", "trail"}

---------------------------------------------------------------------------
(* Claims about get_avatar_url and check_avatar_exists, under Spec *)

\* C1: for an integer-parseable identifier and any size s, the URL carries
\* min(s, 640) in its spec= field when hd is true and min(s, 140) in its s=
\* field when hd is false; a size at or below the cap is passed unchanged and
\* the size in the URL never exceeds the cap.
C1_SizeClamped ==
    (call.op = "get_avatar_url" /\ IsIntegerText(str(call.qq))) =>
        /\ call.raised = "none"
        /\ LET piece == IF call.hd THEN "&spec=" ELSE "&s="
               other == IF call.hd THEN "&s=" ELSE "&spec="
               cap == IF call.hd THEN 640 ELSE 140
               shown == int(FieldAfter(call.url, piece))
           IN  /\ HasPiece(call.url, piece)
               /\ ~HasPiece(call.url, other)
               /\ shown.ok
               /\ shown.val = Min(call.size, cap)
               /\ shown.val <= cap
               /\ (call.size <= cap => FieldAfter(call.url, piece) = IntToStr(call.size))

C1_Witness ==
    /\ call.op = "get_avatar_url"
    /\ call.qq = StrId(<<"1", "0", "2">>)
    /\ ~call.hd
    /\ call.size = 1000
    /\ FieldAfter(call.url, "&s=") = <<"1", "4", "0">>

\* C2: with hd false, an even identifier (positive, zero or negative, int or
\* numeric string) gets server "1" and an odd one server "2", whatever the size.
C2_ServerByParity ==
    (call.op = "get_avatar_url" /\ ~call.hd /\ IsIntegerText(str(call.qq))) =>
        /\ call.raised = "none"
        /\ LET n == IF call.qq.kind = "int" THEN call.qq.n ELSE int(call.qq.s).val
           IN  FieldAfter(call.url, "http://q") = <<IF IsEven(n) THEN "1" ELSE "2">>

C2_Witness ==
    /\ call.op = "get_avatar_url"
    /\ ~call.hd
    /\ call.qq = StrId(<<"-", "7">>)
    /\ call.size = 1000
    /\ FieldAfter(call.url, "http://q") = <<"2">>

\* C3: get_avatar_url raises (ValueError) exactly when hd is false and the
\* identifier's string form is no integer literal; with hd true it returns a
\* URL for every identifier.
C3_RaisesIffStandardAndNotInteger ==
    call.op = "get_avatar_url" =>
        /\ (call.raised # "none") <=> (~call.hd /\ ~IsIntegerText(str(call.qq)))
        /\ call.raised \in {"none", "ValueError"}
        /\ call.raised = "none" => FieldAfter(call.url, IF call.hd
                                                          THEN "http://q.qlogo.cn/headimg_dl?dst_uin="
                                                          ELSE ".qlogo.cn/g?b=qq&nk=") = str(call.qq)

C3_Witness ==
    /\ call.op = "get_avatar_url"
    /\ ~call.hd
    /\ call.qq = StrId(<<"1", "_", "_">>)
    /\ call.raised = "ValueError"

\* C4: when the HEAD request was made, check_avatar_exists returns true exactly
\* when it completed with status 200, and false for every other status and for
\* every network failure.
C4_TrueOnlyOn200 ==
    (call.op = "check_avatar_exists" /\ call.requests # <<>>) =>
        /\ call.raised = "none"
        /\ Len(call.requests) = 1
        /\ call.requests[1].method = "HEAD"
        /\ call.ret <=> (call.net.kind = "response" /\ call.net.status_code = 200)

C4_Witness ==
    /\ call.op = "check_avatar_exists"
    /\ call.requests # <<>>
    /\ call.net.kind = "response"
    /\ call.net.status_code = 204
    /\ call.ret = FALSE

\* C5: check_avatar_exists never surfaces an error to its caller: for every
\* identifier and either quality it returns a boolean.
C5_NeverRaises ==
    call.op = "check_avatar_exists" => call.raised = "none"

---------------------------------------------------------------------------
(* Claims about download_avatar, under SpecDownload *)

\* the step is a download_avatar call whose GET request was made
GetMade == call'.op = "download_avatar" /\ calls' = calls + 1 /\ call'.requests # <<>>

\* what download_avatar leaves behind when it reports a failed GET
FailedCleanly ==
    /\ call'.raised = "none"
    /\ call'.ret = FALSE
    /\ Len(call'.requests) = 1
    /\ call'.requests[1].method = "GET"
    /\ files' = files
    /\ dirs' = dirs

C7_LastBodyWins ==
    /\ (call.op = "download_avatar" /\ call.ret) =>
            /\ abspath(call.saved) \in DOMAIN files
            /\ files[abspath(call.saved)] = call.net.content
    /\ (call.op = "download_avatar" /\ call.existed /\ call.requests # <<>>
            /\ call.net.kind = "response" /\ call.net.status_code = 200 /\ call.io = "ok") =>
            call.ret

C7_Witness ==
    /\ call.op = "download_avatar"
    /\ call.ret
    /\ call.existed
    /\ call.prior = <<"img1">>
    /\ call.net.content = <<"img2">>
    /\ files[abspath(call.saved)] = <<"img2">>

\* C10 as stated: without a destination path the file is written to
\* avatar_{identifier}{suffix} in the current working directory, suffix _hd.jpg
\* for hd and .png otherwise; a given destination path is used unchanged.
C10_DefaultPathAvatar ==
    (call.op = "download_avatar" /\ call.ret) =>
        IF call.save_path = None
        THEN /\ call.saved = <<(<<"avatar_">> \o str(call.qq)) \o <<IF call.hd THEN "_hd.jpg" ELSE ".png">>>>
             /\ (Cwd \o call.saved) \in DOMAIN files
        ELSE /\ call.saved = call.save_path
             /\ abspath(call.save_path) \in DOMAIN files

\* C10 as amended: without a destination path the file is written to
\* qq_{identifier}{suffix} in the current working directory, suffix _hd.jpg for
\* hd and .png otherwise; a given destination path is used unchanged.
C10_DefaultPathQq ==
    (call.op = "download_avatar" /\ call.ret) =>
        IF call.save_path = None
        THEN /\ call.saved = <<(<<"qq_">> \o str(call.qq)) \o <<IF call.hd THEN "_hd.jpg" ELSE ".png">>>>
             /\ (Cwd \o call.saved) \in DOMAIN files
        ELSE /\ call.saved = call.save_path
             /\ abspath(call.save_path) \in DOMAIN files

C10_Witness ==
    /\ call.op = "download_avatar"
    /\ call.ret
    /\ call.save_path = None
    /\ call.qq = IntId(8)
    /\ call.hd
    /\ <<Root, <<"home">>, <<"qq_", "8", "_hd.jpg">>>> \in DOMAIN files

---------------------------------------------------------------------------
(* Claims about batch_download, under SpecBatch *)

\* batch_download has ended, and not while creating the output directory
BatchEnded == batch.pc \in {"done", "raised"} /\ batch.exc.at # "setup"

\* C8: batch_download attempts exactly one fetch per element of the list, in
\* input order, and its final success count is the number of elements whose
\* fetch succeeded, out of a total equal to the list length.
C8_OneFetchPerElementInOrder ==
    BatchEnded =>
        /\ batch.pc = "done"
        /\ Len(batch.attempts) = Len(batch.qq_list)
        /\ \A k \in 1..Len(batch.attempts) : batch.attempts[k].qq = batch.qq_list[k]
        /\ batch.summary.total = Len(batch.qq_list)
        /\ batch.summary.succeeded =
               Cardinality({k \in 1..Len(batch.attempts) : batch.attempts[k].outcome = "ok"})

\* C9: batch_download never aborts because of an item's error: every per-item
\* error is counted as a failure and the batch reaches its summary.
C9_NoItemErrorAbortsBatch ==
    /\ batch.exc.at # "item"
    /\ \A k \in 1..Len(batch.attempts) : batch.attempts[k].outcome \in {"ok", "failed"}

===========================================================================
